---------------------------- MODULE Spec2Model ----------------------------
(***************************************************************************)
(* A model of the PlookupComposer circuit builder of                       *)
(* src/src/constraint_system/plookup_composer.rs: the selector, wire and   *)
(* public-input vectors, the variable map, the permutation tracker and the *)
(* gate constructors that append to them.                                  *)
(*                                                                         *)
(* Row indices are 0-based as in the source; a Vec is a sequence, so the   *)
(* entry at index i of a Vec v is v[i + 1].                                *)
(***************************************************************************)
EXTENDS Integers, Sequences, FiniteSets, TLC

(***************************************************************************)
(* Bounds of the model.                                                    *)
(***************************************************************************)
\* Number of Composer operations a behaviour performs after construction.
MaxCalls == 2
\* The same, in the deeper specification SpecDeep.
MaxDeepCalls == 3
\* with_expected_size(k) is tried for k in 0..MaxExpectedSize.
MaxExpectedSize == 1
\* compute_quotient_i is called with an index in 0..MaxIndex; the evaluation
\* tables of the ProverKeys below have two entries.
MaxIndex == 2
\* Number of workers that evaluate compute_quotient_i concurrently.
NumWorkers == 2

(***************************************************************************)
(* BlsScalar: the elements of a prime field.  The scalar field of          *)
(* BLS12-381 has a 255-bit modulus; the model keeps exact modular          *)
(* arithmetic over a prime that exceeds every constant the source uses     *)
(* (127 is the largest) and keeps 6, 1, 7, -20, 0 and 127 pairwise         *)
(* distinct.                                                               *)
(***************************************************************************)
MODULUS == 251

BlsScalar == 0 .. (MODULUS - 1)

ScalarFrom(k) == k % MODULUS

ScalarZero == 0

ScalarOne == 1

ScalarNeg(x) == (MODULUS - x) % MODULUS

ScalarAdd(x, y) == (x + y) % MODULUS

ScalarMul(x, y) == (x * y) % MODULUS

(***************************************************************************)
(* Option<Variable>: None is the empty sequence, Some(v) is <<v>>.         *)
(***************************************************************************)
None == << >>

Some(v) == << v >>

(***************************************************************************)
(* Result<T, PreProcessingError>: Ok(v) and Err(e) are tagged pairs.       *)
(***************************************************************************)
Ok(v) == << "Ok", v >>

Err(e) == << "Err", e >>

(***************************************************************************)
(* The Permutation tracker (crate::permutation), after the specification's  *)
(* Permutation Tracker: a map from each issued Variable to the ordered     *)
(* list of (wire-role, row-index) occurrences registered for it.  A        *)
(* Variable is its index, a natural number.                                *)
(***************************************************************************)
WireRoles == << "Left", "Right", "Output", "Fourth" >>

WireData(role, gate_index) == [wire |-> role, gate |-> gate_index]

Permutation_new == [variable_map |-> << >>]

\* Issues the next fresh Variable and gives it an empty occurrence list.
new_variable(perm) ==
    LET var == Cardinality(DOMAIN perm.variable_map)
    IN  [perm |-> [variable_map |-> (var :> << >>) @@ perm.variable_map],
         ret  |-> var]

add_variable_to_map(perm, var, wire_data) ==
    [variable_map |->
        [v \in DOMAIN perm.variable_map \cup {var} |->
            IF v = var
            THEN Append(IF v \in DOMAIN perm.variable_map
                        THEN perm.variable_map[v] ELSE << >>, wire_data)
            ELSE perm.variable_map[v]]]

add_variables_to_map(perm, a, b, c, d, gate_index) ==
    LET p1 == add_variable_to_map(perm, a, WireData("Left", gate_index))
        p2 == add_variable_to_map(p1, b, WireData("Right", gate_index))
        p3 == add_variable_to_map(p2, c, WireData("Output", gate_index))
    IN  add_variable_to_map(p3, d, WireData("Fourth", gate_index))

\* The wire slots of a circuit of n rows.
Slots(n) == { WireData(WireRoles[r], i) : r \in 1 .. 4, i \in 0 .. (n - 1) }

\* The sigma mappings compiled from the tracker, as one map on the wire
\* slots of an n-row circuit: the occurrences of each Variable form one
\* cycle, each occurrence mapped to the next one of the same Variable and
\* the last to the first; a slot registered for no Variable is fixed.
compute_sigma_permutations(perm, n) ==
    LET vm == perm.variable_map
        Holds(v, slot) == \E k \in 1 .. Len(vm[v]) : vm[v][k] = slot
    IN  [slot \in Slots(n) |->
            IF \E v \in DOMAIN vm : Holds(v, slot)
            THEN LET v == CHOOSE w \in DOMAIN vm : Holds(w, slot)
                     k == CHOOSE j \in 1 .. Len(vm[v]) : vm[v][j] = slot
                 IN  vm[v][(k % Len(vm[v])) + 1]
            ELSE slot]

(***************************************************************************)
(* PlookupComposer.  Each operation is an operator from the Composer       *)
(* before the call to [composer |-> the Composer after, ret |-> the value  *)
(* returned, as a sequence: << >> for (), <<v>> for a Variable, <<a,b,c>>  *)
(* for a triple].                                                          *)
(***************************************************************************)
circuit_size(self) == self.n

\* The struct literal of with_expected_size: Vec::with_capacity(k) is an
\* empty Vec whatever k is, HashMap::with_capacity(k) an empty map.
EmptyComposer(expected_size) ==
    [n |-> 0,
     q_m |-> << >>, q_l |-> << >>, q_r |-> << >>, q_o |-> << >>,
     q_c |-> << >>, q_4 |-> << >>, q_arith |-> << >>, q_range |-> << >>,
     q_logic |-> << >>, q_fixed_group_add |-> << >>,
     q_variable_group_add |-> << >>, q_lookup |-> << >>,
     public_inputs |-> << >>,
     w_l |-> << >>, w_r |-> << >>, w_o |-> << >>, w_4 |-> << >>,
     zero_var |-> 0,
     variables |-> << >>,
     perm |-> Permutation_new]

\* add_input without the insertion into the variables map.
add_input_unbound(self, s) ==
    LET r == new_variable(self.perm)
    IN  [composer |-> [self EXCEPT !.perm = r.perm], ret |-> << r.ret >>]

\* add_input handing out zero_var again instead of a new Variable.
add_input_reissued(self, s) ==
    [composer |-> [self EXCEPT !.variables = (self.zero_var :> s) @@ self.variables],
     ret |-> << self.zero_var >>]

add_input(self, s) ==
    LET r == new_variable(self.perm)
    IN  [composer |-> [self EXCEPT !.perm = r.perm,
                                   !.variables = (r.ret :> s) @@ self.variables],
         ret |-> << r.ret >>]

(***************************************************************************)
(* Lookup tables (PlookupTable4Arity): a sequence of rows of four scalars. *)
(* add_dummy_rows follows the specification: it appends the rows that      *)
(* match the wire values of the Composer's two dummy constraint rows.      *)
(***************************************************************************)
PlookupTable4Arity_new == << >>

add_dummy_rows(table) ==
    table \o << << ScalarFrom(6), ScalarFrom(7), ScalarNeg(ScalarFrom(20)), ScalarFrom(1) >>,
                << ScalarNeg(ScalarFrom(20)), ScalarFrom(6), ScalarFrom(7), ScalarFrom(0) >> >>

\* The cubes (i, i^3, 0, 0) for i in 0 .. 31 without the dummy rows.
cube_table_without_dummy_rows ==
    [k \in 1 .. 32 |->
        << ScalarFrom(k - 1), ScalarFrom((k - 1) * (k - 1) * (k - 1)),
           ScalarZero, ScalarZero >>]

\* The table of test_cube_table: the dummy rows, then (i, i^3, 0, 0) for
\* i in 0 .. 32 - (number of dummy rows) - 1.
cube_table ==
    LET t0 == add_dummy_rows(PlookupTable4Arity_new)
    IN  t0 \o [k \in 1 .. (32 - Len(t0)) |->
                 << ScalarFrom(k - 1), ScalarFrom((k - 1) * (k - 1) * (k - 1)),
                    ScalarZero, ScalarZero >>]

\* The first three columns of some row of the table are (x, y, z).
TripleInTable(table, x, y, z) ==
    \E k \in 1 .. Len(table) :
        /\ table[k][1] = x
        /\ table[k][2] = y
        /\ table[k][3] = z

\* A lookup_gate that checks the triple's values against cube_table and
\* refuses a triple that is no row of it.
lookup_gate_checking_membership(self, a, b, c) ==
    [composer |-> self,
     ret |-> IF TripleInTable(cube_table, self.variables[a], self.variables[b],
                              self.variables[c])
             THEN Ok(<< >>)
             ELSE Err("PreProcessingError")]

lookup_gate(self, a, b, c) ==
    [composer |->
        [self EXCEPT !.w_l = Append(Append(Append(@, a), b), c),
                     !.w_4 = Append(@, self.zero_var),
                     !.q_l = Append(@, ScalarZero),
                     !.q_r = Append(@, ScalarZero),
                     !.q_m = Append(@, ScalarZero),
                     !.q_o = Append(@, ScalarZero),
                     !.q_c = Append(@, ScalarZero),
                     !.q_4 = Append(@, ScalarZero),
                     !.q_arith = Append(@, ScalarZero),
                     !.q_range = Append(@, ScalarZero),
                     !.q_logic = Append(@, ScalarZero),
                     !.q_fixed_group_add = Append(@, ScalarZero),
                     !.q_variable_group_add = Append(@, ScalarZero),
                     !.q_lookup = Append(@, ScalarOne)],
     ret |-> Ok(<< >>)]

\* poly_gate without the registration of the row's four occurrences.
poly_gate_unregistered(self, a, b, c, q_m, q_l, q_r, q_o, q_c, pi) ==
    [composer |->
        [self EXCEPT !.w_l = Append(@, a),
                     !.w_r = Append(@, b),
                     !.w_o = Append(@, c),
                     !.w_4 = Append(@, self.zero_var),
                     !.q_l = Append(@, q_l),
                     !.q_r = Append(@, q_r),
                     !.q_m = Append(@, q_m),
                     !.q_o = Append(@, q_o),
                     !.q_c = Append(@, q_c),
                     !.q_4 = Append(@, ScalarZero),
                     !.q_arith = Append(@, ScalarOne),
                     !.q_range = Append(@, ScalarZero),
                     !.q_logic = Append(@, ScalarZero),
                     !.q_fixed_group_add = Append(@, ScalarZero),
                     !.q_variable_group_add = Append(@, ScalarZero),
                     !.q_lookup = Append(@, ScalarZero),
                     !.public_inputs = Append(@, pi),
                     !.n = @ + 1],
     ret |-> << a, b, c >>]

poly_gate(self, a, b, c, q_m, q_l, q_r, q_o, q_c, pi) ==
    [composer |->
        [self EXCEPT !.w_l = Append(@, a),
                     !.w_r = Append(@, b),
                     !.w_o = Append(@, c),
                     !.w_4 = Append(@, self.zero_var),
                     !.q_l = Append(@, q_l),
                     !.q_r = Append(@, q_r),
                     !.q_m = Append(@, q_m),
                     !.q_o = Append(@, q_o),
                     !.q_c = Append(@, q_c),
                     !.q_4 = Append(@, ScalarZero),
                     !.q_arith = Append(@, ScalarOne),
                     !.q_range = Append(@, ScalarZero),
                     !.q_logic = Append(@, ScalarZero),
                     !.q_fixed_group_add = Append(@, ScalarZero),
                     !.q_variable_group_add = Append(@, ScalarZero),
                     !.q_lookup = Append(@, ScalarZero),
                     !.public_inputs = Append(@, pi),
                     !.perm = add_variables_to_map(@, a, b, c, self.zero_var, self.n),
                     !.n = @ + 1],
     ret |-> << a, b, c >>]

constrain_to_constant(self, a, constant, pi) ==
    [composer |-> poly_gate(self, a, a, a, ScalarZero, ScalarOne, ScalarZero,
                            ScalarZero, ScalarNeg(constant), pi).composer,
     ret |-> << >>]

assert_equal(self, a, b) ==
    [composer |-> poly_gate(self, a, b, self.zero_var, ScalarZero, ScalarOne,
                            ScalarNeg(ScalarOne), ScalarZero, ScalarZero,
                            ScalarZero).composer,
     ret |-> << >>]

add_witness_to_circuit_description(self, value) ==
    LET r == add_input(self, value)
        var == r.ret[1]
    IN  [composer |-> constrain_to_constant(r.composer, var, value, ScalarZero).composer,
         ret |-> << var >>]

add_one_dummy_constraint(self) ==
    LET s0 == [self EXCEPT !.q_m = Append(@, ScalarFrom(1)),
                           !.q_l = Append(@, ScalarFrom(2)),
                           !.q_r = Append(@, ScalarFrom(3)),
                           !.q_o = Append(@, ScalarFrom(4)),
                           !.q_c = Append(@, ScalarFrom(4)),
                           !.q_4 = Append(@, ScalarOne),
                           !.q_arith = Append(@, ScalarOne),
                           !.q_range = Append(@, ScalarZero),
                           !.q_logic = Append(@, ScalarZero),
                           !.q_fixed_group_add = Append(@, ScalarZero),
                           !.q_variable_group_add = Append(@, ScalarZero),
                           !.q_lookup = Append(@, ScalarOne),
                           !.public_inputs = Append(@, ScalarZero)]
        r1 == add_input(s0, ScalarFrom(6))
        var_six == r1.ret[1]
        r2 == add_input(r1.composer, ScalarFrom(1))
        var_one == r2.ret[1]
        r3 == add_input(r2.composer, ScalarFrom(7))
        var_seven == r3.ret[1]
        r4 == add_input(r3.composer, ScalarNeg(ScalarFrom(20)))
        var_min_twenty == r4.ret[1]
        s4 == r4.composer
    IN  [composer |->
            [s4 EXCEPT !.w_l = Append(@, var_six),
                       !.w_r = Append(@, var_seven),
                       !.w_o = Append(@, var_min_twenty),
                       !.w_4 = Append(@, var_one),
                       !.perm = add_variables_to_map(@, var_six, var_seven,
                                                     var_min_twenty, var_one, s4.n),
                       !.n = @ + 1],
         ret |-> << >>]

\* add_dummy_constraints stopping after its first dummy row.
add_dummy_constraints_first_row_only(self) == add_one_dummy_constraint(self)

\* add_dummy_constraints as two independent dummy rows: the second row gets
\* four new Variables instead of reusing those of the first.
add_dummy_constraints_unlinked(self) ==
    add_one_dummy_constraint(add_one_dummy_constraint(self).composer)

add_dummy_constraints(self) ==
    LET \* Add a dummy constraint so that we do not have zero polynomials
        s0 == [self EXCEPT !.q_m = Append(@, ScalarFrom(1)),
                           !.q_l = Append(@, ScalarFrom(2)),
                           !.q_r = Append(@, ScalarFrom(3)),
                           !.q_o = Append(@, ScalarFrom(4)),
                           !.q_c = Append(@, ScalarFrom(4)),
                           !.q_4 = Append(@, ScalarOne),
                           !.q_arith = Append(@, ScalarOne),
                           !.q_range = Append(@, ScalarZero),
                           !.q_logic = Append(@, ScalarZero),
                           !.q_fixed_group_add = Append(@, ScalarZero),
                           !.q_variable_group_add = Append(@, ScalarZero),
                           !.q_lookup = Append(@, ScalarOne),
                           !.public_inputs = Append(@, ScalarZero)]
        r1 == add_input(s0, ScalarFrom(6))
        var_six == r1.ret[1]
        r2 == add_input(r1.composer, ScalarFrom(1))
        var_one == r2.ret[1]
        r3 == add_input(r2.composer, ScalarFrom(7))
        var_seven == r3.ret[1]
        r4 == add_input(r3.composer, ScalarNeg(ScalarFrom(20)))
        var_min_twenty == r4.ret[1]
        s4 == r4.composer
        s5 == [s4 EXCEPT !.w_l = Append(@, var_six),
                         !.w_r = Append(@, var_seven),
                         !.w_o = Append(@, var_min_twenty),
                         !.w_4 = Append(@, var_one),
                         !.perm = add_variables_to_map(@, var_six, var_seven,
                                                       var_min_twenty, var_one, s4.n),
                         !.n = @ + 1]
        \* Add another dummy constraint so that we do not get the identity permutation
    IN  [composer |->
            [s5 EXCEPT !.q_m = Append(@, ScalarFrom(1)),
                       !.q_l = Append(@, ScalarFrom(1)),
                       !.q_r = Append(@, ScalarFrom(1)),
                       !.q_o = Append(@, ScalarFrom(1)),
                       !.q_c = Append(@, ScalarFrom(127)),
                       !.q_4 = Append(@, ScalarZero),
                       !.q_arith = Append(@, ScalarOne),
                       !.q_range = Append(@, ScalarZero),
                       !.q_logic = Append(@, ScalarZero),
                       !.q_fixed_group_add = Append(@, ScalarZero),
                       !.q_variable_group_add = Append(@, ScalarZero),
                       !.q_lookup = Append(@, ScalarOne),
                       !.public_inputs = Append(@, ScalarZero),
                       !.w_l = Append(@, var_min_twenty),
                       !.w_r = Append(@, var_six),
                       !.w_o = Append(@, var_seven),
                       !.w_4 = Append(@, s5.zero_var),
                       !.perm = add_variables_to_map(@, var_min_twenty, var_six,
                                                     var_seven, s5.zero_var, s5.n),
                       !.n = @ + 1],
         ret |-> << >>]

\* plookup_gate writing its row over the last row instead of appending it.
plookup_gate_over_last_row(self, a, b, c, d, pi) ==
    LET dd == IF d = None THEN self.zero_var ELSE d[1]
    IN  [composer |->
            [self EXCEPT !.w_l[Len(self.w_l)] = a,
                         !.w_r[Len(self.w_r)] = b,
                         !.w_o[Len(self.w_o)] = c,
                         !.w_4[Len(self.w_4)] = dd,
                         !.q_arith[Len(self.q_arith)] = ScalarZero,
                         !.q_lookup[Len(self.q_lookup)] = ScalarOne,
                         !.public_inputs[Len(self.public_inputs)] = pi],
         ret |-> << c >>]

plookup_gate(self, a, b, c, d, pi) ==
    LET \* Check if advice wire has a value
        dd == IF d = None THEN self.zero_var ELSE d[1]
    IN  [composer |->
            [self EXCEPT !.w_l = Append(@, a),
                         !.w_r = Append(@, b),
                         !.w_o = Append(@, c),
                         !.w_4 = Append(@, dd),
                         !.q_l = Append(@, ScalarZero),
                         !.q_r = Append(@, ScalarZero),
                         !.q_o = Append(@, ScalarZero),
                         !.q_c = Append(@, ScalarZero),
                         !.q_4 = Append(@, ScalarZero),
                         !.q_arith = Append(@, ScalarZero),
                         !.q_m = Append(@, ScalarZero),
                         !.q_range = Append(@, ScalarZero),
                         !.q_logic = Append(@, ScalarZero),
                         !.q_fixed_group_add = Append(@, ScalarZero),
                         !.q_variable_group_add = Append(@, ScalarZero),
                         !.q_lookup = Append(@, ScalarOne),
                         !.public_inputs = Append(@, pi),
                         !.perm = add_variables_to_map(@, a, b, c, dd, self.n),
                         !.n = @ + 1],
         ret |-> << c >>]

\* with_expected_size reserving its first variable with the value one.
with_expected_size_reserving_one(expected_size) ==
    LET composer0 == EmptyComposer(expected_size)
        r == add_witness_to_circuit_description(composer0, ScalarOne)
        composer1 == [r.composer EXCEPT !.zero_var = r.ret[1]]
    IN  add_dummy_constraints(composer1).composer

with_expected_size(expected_size) ==
    LET composer0 == EmptyComposer(expected_size)
        \* Reserve the first variable to be zero
        r == add_witness_to_circuit_description(composer0, ScalarZero)
        composer1 == [r.composer EXCEPT !.zero_var = r.ret[1]]
    IN  \* Add dummy constraints
        add_dummy_constraints(composer1).composer

new == with_expected_size(0)

(***************************************************************************)
(* Preprocessing (the Prover's and Verifier's preprocess, after the         *)
(* specification's lifecycle) derives the Prover Key's polynomials from    *)
(* the row vectors; the model records what it read.                        *)
(***************************************************************************)
RowVectors(self) ==
    [n |-> self.n,
     q_m |-> self.q_m, q_l |-> self.q_l, q_r |-> self.q_r, q_o |-> self.q_o,
     q_c |-> self.q_c, q_4 |-> self.q_4, q_arith |-> self.q_arith,
     q_range |-> self.q_range, q_logic |-> self.q_logic,
     q_fixed_group_add |-> self.q_fixed_group_add,
     q_variable_group_add |-> self.q_variable_group_add,
     q_lookup |-> self.q_lookup, public_inputs |-> self.public_inputs,
     w_l |-> self.w_l, w_r |-> self.w_r, w_o |-> self.w_o, w_4 |-> self.w_4]

preprocess(self) == RowVectors(self)

(***************************************************************************)
(* The permutation/lookup ProverKey of                                     *)
(* src/src/proof_system/widget/permutation/proverkey.rs.                   *)
(*                                                                         *)
(* Polynomial and Evaluations (crate::fft) follow the specification: a     *)
(* Polynomial is the sequence of its coefficients, lowest degree first,    *)
(* without leading zero coefficients; Evaluations is a sequence of         *)
(* scalars read by a 0-based index.  K1, K2, K3                            *)
(* (crate::permutation::constants) are the three coset constants.          *)
(***************************************************************************)
K1 == 7

K2 == 13

K3 == 17

ScalarSub(x, y) == ScalarAdd(x, ScalarNeg(y))

ScalarSquare(x) == ScalarMul(x, x)

\* The multiplicative inverse of a nonzero scalar.
ScalarInvert(x) == CHOOSE y \in BlsScalar : ScalarMul(x, y) = ScalarOne

\* x * y * z ... as the source's left-to-right chains of `*`.
RECURSIVE ScalarProduct(_)
ScalarProduct(xs) ==
    IF xs = << >> THEN ScalarOne
    ELSE ScalarMul(ScalarProduct(SubSeq(xs, 1, Len(xs) - 1)), xs[Len(xs)])

RECURSIVE ScalarSum(_)
ScalarSum(xs) ==
    IF xs = << >> THEN ScalarZero
    ELSE ScalarAdd(ScalarSum(SubSeq(xs, 1, Len(xs) - 1)), xs[Len(xs)])

RECURSIVE ScalarPow(_, _)
ScalarPow(x, k) == IF k = 0 THEN ScalarOne ELSE ScalarMul(ScalarPow(x, k - 1), x)

\* Polynomial: drop the leading zero coefficients.
RECURSIVE truncate_leading_zeros(_)
truncate_leading_zeros(coeffs) ==
    IF coeffs # << >> /\ coeffs[Len(coeffs)] = ScalarZero
    THEN truncate_leading_zeros(SubSeq(coeffs, 1, Len(coeffs) - 1))
    ELSE coeffs

PolynomialZero == << >>

\* &Polynomial + &Polynomial
PolynomialAdd(p, q) ==
    LET len == IF Len(p) > Len(q) THEN Len(p) ELSE Len(q)
        Coeff(r, k) == IF k <= Len(r) THEN r[k] ELSE ScalarZero
    IN  truncate_leading_zeros([k \in 1 .. len |-> ScalarAdd(Coeff(p, k), Coeff(q, k))])

\* &Polynomial * &BlsScalar
PolynomialScale(p, constant) ==
    IF p = PolynomialZero \/ constant = ScalarZero
    THEN PolynomialZero
    ELSE [k \in 1 .. Len(p) |-> ScalarMul(p[k], constant)]

\* Polynomial::degree
PolynomialDegree(p) == IF p = PolynomialZero THEN 0 ELSE Len(p) - 1

\* Polynomial::evaluate
PolynomialEvaluate(p, point) ==
    ScalarSum([k \in 1 .. Len(p) |-> ScalarMul(p[k], ScalarPow(point, k - 1))])

\* usize::next_power_of_two
RECURSIVE PowerOfTwoAtLeast(_, _)
PowerOfTwoAtLeast(k, size) == IF size >= k THEN size ELSE PowerOfTwoAtLeast(k, 2 * size)

next_power_of_two(k) == PowerOfTwoAtLeast(k, 1)

\* EvaluationDomain::new(num_coeffs): the multiplicative subgroup whose size
\* is the power of two next to num_coeffs.
EvaluationDomain_new(num_coeffs) == [size |-> next_power_of_two(num_coeffs)]

\* domain.evaluate_all_lagrange_coefficients(tau)[0]: the first Lagrange
\* coefficient of the domain at tau, (tau^size - 1) / (size * (tau - 1)),
\* and the indicator of tau = 1 when tau lies in the domain.
first_lagrange_coefficient(domain, tau) ==
    LET t_size == ScalarPow(tau, domain.size)
    IN  IF t_size = ScalarOne
        THEN IF tau = ScalarOne THEN ScalarOne ELSE ScalarZero
        ELSE ScalarMul(ScalarMul(ScalarSub(t_size, ScalarOne),
                                 ScalarInvert(ScalarFrom(domain.size))),
                       ScalarInvert(ScalarSub(tau, ScalarOne)))

\* evaluations[index] is in range.
InRange(evaluations, index) == index < Len(evaluations)

\* evaluations[index]
Index(evaluations, index) == evaluations[index + 1]

\* Every table compute_quotient_i reads has an entry at index; an index
\* beyond a table makes the read panic.
QuotientIndexInRange(self, index) ==
    /\ InRange(self.linear_evaluations, index)
    /\ InRange(self.left_sigma[2], index)
    /\ InRange(self.right_sigma[2], index)
    /\ InRange(self.out_sigma[2], index)
    /\ InRange(self.fourth_sigma[2], index)

\* (a(x) + beta * X + gamma) (b(X) + beta * k1 * X + gamma)
\* (c(X) + beta * k2 * X + gamma)(d(X) + beta * k3 * X + gamma)z(X) * alpha
compute_quotient_identity_range_check_i(self, index, w_l_i, w_r_i, w_o_i, w_4_i, z_i, alpha, beta, gamma) ==
    LET x == Index(self.linear_evaluations, index)
    IN  ScalarProduct(<<
            ScalarAdd(ScalarAdd(w_l_i, ScalarMul(beta, x)), gamma),
            ScalarAdd(ScalarAdd(w_r_i, ScalarMul(ScalarMul(beta, K1), x)), gamma),
            ScalarAdd(ScalarAdd(w_o_i, ScalarMul(ScalarMul(beta, K2), x)), gamma),
            ScalarAdd(ScalarAdd(w_4_i, ScalarMul(ScalarMul(beta, K3), x)), gamma),
            z_i,
            alpha >>)

\* Term 3 without the factor (x - omega^n).
compute_lookup_quotient_identity_on_every_row(self, index, f_i, t_i, t_i_next, p_i, alpha, delta, epsilon, omega_roots) ==
    LET alpha_5 == ScalarProduct(<< alpha, alpha, alpha, alpha, alpha >>)
        one_plus_delta == ScalarAdd(ScalarOne, delta)
        a_2 == ScalarAdd(epsilon, f_i)
        a_3 == ScalarAdd(ScalarAdd(ScalarMul(epsilon, one_plus_delta), t_i),
                         ScalarMul(delta, t_i_next))
    IN  ScalarProduct(<< p_i, one_plus_delta, a_2, a_3, alpha_5 >>)

\* (x - omega^n) * p(x) * (1 + delta) * (epsilon + f(x))
\* (epsilon(1 + delta) + t(x) + delta * t(x_omega)) * alpha^5
compute_lookup_quotient_identity_range_check_i(self, index, f_i, t_i, t_i_next, p_i, alpha, delta, epsilon, omega_roots) ==
    LET x == Index(self.linear_evaluations, index)
        alpha_5 == ScalarProduct(<< alpha, alpha, alpha, alpha, alpha >>)
        one_plus_delta == ScalarAdd(ScalarOne, delta)
        a_1 == ScalarSub(x, omega_roots)
        a_2 == ScalarAdd(epsilon, f_i)
        a_3 == ScalarAdd(ScalarAdd(ScalarMul(epsilon, one_plus_delta), t_i),
                         ScalarMul(delta, t_i_next))
    IN  ScalarProduct(<< a_1, p_i, one_plus_delta, a_2, a_3, alpha_5 >>)

\* The copy term without its negation.
compute_quotient_copy_range_check_i_not_negated(self, index, w_l_i, w_r_i, w_o_i, w_4_i, z_i_next, alpha, beta, gamma) ==
    ScalarProduct(<<
        ScalarAdd(ScalarAdd(w_l_i, ScalarMul(beta, Index(self.left_sigma[2], index))), gamma),
        ScalarAdd(ScalarAdd(w_r_i, ScalarMul(beta, Index(self.right_sigma[2], index))), gamma),
        ScalarAdd(ScalarAdd(w_o_i, ScalarMul(beta, Index(self.out_sigma[2], index))), gamma),
        ScalarAdd(ScalarAdd(w_4_i, ScalarMul(beta, Index(self.fourth_sigma[2], index))), gamma),
        z_i_next,
        alpha >>)

\* (a(x) + beta * Sigma1(X) + gamma) (b(X) + beta * Sigma2(X) + gamma)
\* (c(X) + beta * Sigma3(X) + gamma)(d(X) + beta * Sigma4(X) + gamma)
\* Z(X.omega) * alpha, negated
compute_quotient_copy_range_check_i(self, index, w_l_i, w_r_i, w_o_i, w_4_i, z_i_next, alpha, beta, gamma) ==
    LET left_sigma_eval == Index(self.left_sigma[2], index)
        right_sigma_eval == Index(self.right_sigma[2], index)
        out_sigma_eval == Index(self.out_sigma[2], index)
        fourth_sigma_eval == Index(self.fourth_sigma[2], index)
        product == ScalarProduct(<<
            ScalarAdd(ScalarAdd(w_l_i, ScalarMul(beta, left_sigma_eval)), gamma),
            ScalarAdd(ScalarAdd(w_r_i, ScalarMul(beta, right_sigma_eval)), gamma),
            ScalarAdd(ScalarAdd(w_o_i, ScalarMul(beta, out_sigma_eval)), gamma),
            ScalarAdd(ScalarAdd(w_4_i, ScalarMul(beta, fourth_sigma_eval)), gamma),
            z_i_next,
            alpha >>)
    IN  ScalarNeg(product)

\* (x - omega^n) * p(x_omega) * (epsilon(1 + delta) + h_1(x) + delta * h_1(x_omega))
\* * (epsilon(1 + delta) + h_2(x) + delta * h_2(x_omega)) * alpha^5, negated
compute_lookup_quotient_copy_range_check_i(self, index, h_1_i, h_2_i, h_1_i_next, h_2_i_next, p_i_next, alpha, delta, epsilon, omega_roots) ==
    LET alpha_5 == ScalarProduct(<< alpha, alpha, alpha, alpha, alpha >>)
        one_plus_delta == ScalarAdd(ScalarOne, delta)
        epsilon_one_plus_delta == ScalarMul(epsilon, one_plus_delta)
        x == Index(self.linear_evaluations, index)
        a_1 == ScalarSub(x, omega_roots)
        a_2 == ScalarAdd(ScalarAdd(epsilon_one_plus_delta, h_1_i),
                         ScalarMul(delta, h_1_i_next))
        a_3 == ScalarAdd(ScalarAdd(epsilon_one_plus_delta, h_2_i),
                         ScalarMul(delta, h_2_i_next))
        product == ScalarProduct(<< p_i_next, a_1, a_2, a_3, alpha_5 >>)
    IN  ScalarNeg(product)

\* L_1(X)[Z(X) - 1] + L_1(X)[P(X) - 1]
compute_quotient_term_check_first_la_grange_polys(self, z_i, p_i, l1_alpha_sq, l1_alpha_4) ==
    LET a_1 == ScalarMul(ScalarSub(z_i, ScalarOne), l1_alpha_sq)
        a_2 == ScalarMul(ScalarSub(p_i, ScalarOne), l1_alpha_4)
    IN  ScalarAdd(a_1, a_2)

compute_quotient_last_la_grange_polys(self, p_i, ln_alpha_7) ==
    ScalarMul(ScalarSub(p_i, ScalarOne), ln_alpha_7)

\* What the stack slot of a temporary may hold once its function has
\* returned and other calls have used the stack: two sample values.
StaleStackValues == { ScalarZero, ScalarFrom(77) }

\* compute_overlap_check returns a reference to the temporary holding
\* (h_1_i - h_2_i_next) * ln_alpha_6; the temporary is gone when the function
\* returns.  The operator gives the values a later read through the
\* reference may see: the product, if the slot was left alone, or a stale
\* value.
compute_overlap_check(self, h_1_i, h_2_i_next, ln_alpha_6) ==
    { ScalarMul(ScalarSub(h_1_i, h_2_i_next), ln_alpha_6) } \cup StaleStackValues

\* (a_eval + beta * z_challenge + gamma)(b_eval + beta * K1 * z_challenge + gamma)
\* (c_eval + beta * K2 * z_challenge + gamma)
\* (d_eval + beta * K3 * z_challenge + gamma) * alpha z(X)
compute_lineariser_identity_range_check(a_eval, b_eval, c_eval, d_eval, z_challenge, alpha, beta, gamma, z_poly) ==
    LET beta_z == ScalarMul(beta, z_challenge)
        a_0 == ScalarAdd(ScalarAdd(a_eval, beta_z), gamma)
        beta_z_k1 == ScalarMul(K1, beta_z)
        a_1 == ScalarAdd(ScalarAdd(b_eval, beta_z_k1), gamma)
        beta_z_k2 == ScalarMul(K2, beta_z)
        a_2 == ScalarAdd(ScalarAdd(c_eval, beta_z_k2), gamma)
        beta_z_k3 == ScalarMul(K3, beta_z)
        a_3 == ScalarAdd(ScalarAdd(d_eval, beta_z_k3), gamma)
        a == ScalarProduct(<< a_0, a_1, a_2, a_3, alpha >>)
    IN  PolynomialScale(z_poly, a)

\* -(a_eval + beta * sigma_1 + gamma)(b_eval + beta * sigma_2 + gamma)
\* (c_eval + beta * sigma_3 + gamma) * beta * z_eval * alpha * Sigma_4(X)
compute_lineariser_copy_range_check(a_eval, b_eval, c_eval, z_eval, sigma_1_eval, sigma_2_eval, sigma_3_eval, alpha, beta, gamma, fourth_sigma_poly) ==
    LET beta_sigma_1 == ScalarMul(beta, sigma_1_eval)
        a_0 == ScalarAdd(ScalarAdd(a_eval, beta_sigma_1), gamma)
        beta_sigma_2 == ScalarMul(beta, sigma_2_eval)
        a_1 == ScalarAdd(ScalarAdd(b_eval, beta_sigma_2), gamma)
        beta_sigma_3 == ScalarMul(beta, sigma_3_eval)
        a_2 == ScalarAdd(ScalarAdd(c_eval, beta_sigma_3), gamma)
        beta_z_eval == ScalarMul(beta, z_eval)
        a == ScalarProduct(<< a_0, a_1, a_2, beta_z_eval, alpha >>)
    IN  PolynomialScale(fourth_sigma_poly, ScalarNeg(a))

\* The third part with the first Lagrange coefficient alone as the scalar.
compute_lineariser_check_is_one_unscaled(domain, z_challenge, alpha_sq, z_coeffs) ==
    PolynomialScale(z_coeffs, first_lagrange_coefficient(domain, z_challenge))

compute_lineariser_check_is_one(domain, z_challenge, alpha_sq, z_coeffs) ==
    LET l_1_z == first_lagrange_coefficient(domain, z_challenge)
    IN  PolynomialScale(z_coeffs, ScalarMul(l_1_z, alpha_sq))

\* The polynomials compute_linearisation adds up, in the order it computes
\* them.  The argument is the record of the call's arguments.
compute_linearisation_terms(self, in) ==
    LET a == compute_lineariser_identity_range_check(
                 in.a_eval, in.b_eval, in.c_eval, in.d_eval, in.z_challenge,
                 in.alpha, in.beta, in.gamma, in.z_poly)
        b == compute_lineariser_copy_range_check(
                 in.a_eval, in.b_eval, in.c_eval, in.z_eval, in.sigma_1_eval,
                 in.sigma_2_eval, in.sigma_3_eval, in.alpha, in.beta, in.gamma,
                 self.fourth_sigma[1])
        domain == EvaluationDomain_new(PolynomialDegree(in.z_poly))
        c == compute_lineariser_check_is_one(domain, in.z_challenge,
                                             ScalarSquare(in.alpha), in.z_poly)
    IN  << a, b, c >>

compute_linearisation(self, in) ==
    LET terms == compute_linearisation_terms(self, in)
    IN  PolynomialAdd(PolynomialAdd(terms[1], terms[2]), terms[3])

(***************************************************************************)
(* The state: one Composer, driven by a caller, and one ProverKey, read by *)
(* workers.                                                                *)
(*   composer    the PlookupComposer                                       *)
(*   held        the Variables the caller holds: zero_var and the ones     *)
(*               add_input / add_witness_to_circuit_description returned   *)
(*   prover_key  None, or Some(the row vectors preprocessing read)         *)
(*   last        the last call: its name, arguments and returned value     *)
(*   calls       the number of calls made since construction               *)
(*   pkey        the permutation ProverKey                                 *)
(*   workers     for each worker, its call of compute_quotient_i: the      *)
(*               position in the function body, the arguments, the terms   *)
(*               computed so far and the value returned                    *)
(*   lin         None, or Some(the call of compute_linearisation made)     *)
(*   gadget      the gadget closure of test_cube_table: its local          *)
(*               Variables, the lookup queries and the sums it has added   *)
(* Every Composer action takes the number of calls its specification       *)
(* allows; every ProverKey action takes the workers that may take it.      *)
(***************************************************************************)
VARIABLES composer, held, prover_key, last, calls, pkey, workers, lin, gadget

vars == << composer, held, prover_key, last, calls, pkey, workers, lin, gadget >>

composerVars == << composer, held, prover_key, last, calls >>

proverVars == << pkey, workers, lin >>

\* Values the caller passes for witnesses and constants.
InputScalars == {ScalarZero, ScalarOne}

\* Values the caller passes as the public input of a gate.
PublicInputs == {ScalarZero, ScalarNeg(ScalarOne)}

\* (q_m, q_l, q_r, q_o, q_c) the caller passes to poly_gate: an addition,
\* a multiplication, and five pairwise distinct values.
SelectorChoices ==
    { << ScalarZero, ScalarOne, ScalarOne, ScalarZero, ScalarZero >>,
      << ScalarOne, ScalarZero, ScalarZero, ScalarNeg(ScalarOne), ScalarZero >>,
      << ScalarFrom(11), ScalarFrom(12), ScalarFrom(13), ScalarFrom(14),
         ScalarFrom(15) >> }

Call(op, args, ret) == [op |-> op, args |-> args, ret |-> ret]

(***************************************************************************)
(* The ProverKeys and the arguments the workers are given.                 *)
(***************************************************************************)
\* A key of a two-row domain whose sigma tables are the identity
\* permutation: slot (role, x) is mapped to itself.
IdentityKey ==
    [left_sigma |-> << << ScalarZero, ScalarOne >>, << ScalarFrom(3), ScalarFrom(5) >> >>,
     right_sigma |-> << << ScalarZero, K1 >>,
                        << ScalarMul(K1, ScalarFrom(3)), ScalarMul(K1, ScalarFrom(5)) >> >>,
     out_sigma |-> << << ScalarZero, K2 >>,
                      << ScalarMul(K2, ScalarFrom(3)), ScalarMul(K2, ScalarFrom(5)) >> >>,
     fourth_sigma |-> << << ScalarZero, K3 >>,
                         << ScalarMul(K3, ScalarFrom(3)), ScalarMul(K3, ScalarFrom(5)) >> >>,
     linear_evaluations |-> << ScalarFrom(3), ScalarFrom(5) >>,
     h_1 |-> << << ScalarFrom(4) >>, << ScalarFrom(4), ScalarFrom(4) >> >>,
     h_2 |-> << << ScalarFrom(4) >>, << ScalarFrom(4), ScalarFrom(4) >> >>,
     t |-> << << ScalarFrom(4) >>, << ScalarFrom(4), ScalarFrom(4) >> >>]

\* The same domain with the left and right slots of the first row swapped
\* and a fourth sigma polynomial of degree two.
SwappedKey ==
    [IdentityKey EXCEPT
        !.left_sigma = << << K1 >>, << ScalarMul(K1, ScalarFrom(3)), ScalarFrom(5) >> >>,
        !.right_sigma = << << ScalarOne >>, << ScalarFrom(3), ScalarMul(K1, ScalarFrom(5)) >> >>,
        !.fourth_sigma = << << ScalarFrom(2), ScalarZero, ScalarFrom(9) >>,
                            << ScalarMul(K3, ScalarFrom(3)), ScalarMul(K3, ScalarFrom(5)) >> >>]

ProverKeys == { IdentityKey, SwappedKey }

\* Arguments of compute_quotient_i, all different.
DistinctQuotientArgs ==
    [w_l_i |-> 2, w_r_i |-> 3, w_o_i |-> 4, w_4_i |-> 5, f_i |-> 6, t_i |-> 7,
     t_i_next |-> 8, h_1_i |-> 9, h_2_i |-> 10, h_1_i_next |-> 11, h_2_i_next |-> 12,
     z_i |-> 13, z_i_next |-> 14, p_i |-> 15, p_i_next |-> 16, alpha |-> 17,
     l1_alpha_sq |-> 18, l1_alpha_4 |-> 19, ln_alpha_6 |-> 20, ln_alpha_7 |-> 21,
     beta |-> 22, gamma |-> 23, delta |-> 24, epsilon |-> 25, omega_roots |-> 26]

\* Arguments of compute_quotient_i, all one.
UnitQuotientArgs == [name \in DOMAIN DistinctQuotientArgs |-> ScalarOne]

BaseQuotientArgs == { DistinctQuotientArgs, UnitQuotientArgs }

\* Values that replace one argument of a base argument record.
ProbeScalars == { ScalarZero, ScalarOne, ScalarFrom(3), ScalarNeg(ScalarOne) }

\* The base records with one argument replaced.
ProbeQuotientArgs ==
    { [base EXCEPT ![name] = v] :
        base \in BaseQuotientArgs, name \in DOMAIN DistinctQuotientArgs, v \in ProbeScalars }

\* The probed records with omega_roots set to an entry of linear_evaluations:
\* the evaluation at that entry's index is the one of the last row.
LastRowQuotientArgs ==
    { [probe EXCEPT !.omega_roots = IdentityKey.linear_evaluations[k]] :
        probe \in ProbeQuotientArgs, k \in DOMAIN IdentityKey.linear_evaluations }

\* The values of z_poly: the zero polynomial and polynomials of degree 0, 1, 2.
ZPolynomials ==
    { PolynomialZero, << ScalarOne >>, << ScalarFrom(2), ScalarFrom(3) >>,
      << ScalarOne, ScalarZero, ScalarFrom(5) >> }

\* Scalar arguments of compute_linearisation, all different.
DistinctLinearisationArgs ==
    [z_challenge |-> 2, alpha |-> 3, beta |-> 4, gamma |-> 5, a_eval |-> 6, b_eval |-> 7,
     c_eval |-> 8, d_eval |-> 9, sigma_1_eval |-> 10, sigma_2_eval |-> 11,
     sigma_3_eval |-> 12, z_eval |-> 13]

UnitLinearisationArgs == [name \in DOMAIN DistinctLinearisationArgs |-> ScalarOne]

\* The argument records of compute_linearisation: a base record with one
\* scalar replaced, and a z_poly.
ProbeLinearisationArgs ==
    { [name \in DOMAIN base \cup { "z_poly" } |->
          IF name = "z_poly" THEN z_poly ELSE IF name = probed THEN v ELSE base[name]] :
        base \in { DistinctLinearisationArgs, UnitLinearisationArgs },
        probed \in DOMAIN DistinctLinearisationArgs, v \in ProbeScalars,
        z_poly \in ZPolynomials }

Workers == 1 .. NumWorkers

\* A worker that has not called compute_quotient_i.
IdleWorker ==
    [pc |-> "idle", index |-> 0, args |-> << >>,
     a |-> ScalarZero, b |-> ScalarZero, c |-> ScalarZero, d |-> ScalarZero,
     e |-> ScalarZero, f |-> ScalarZero, g |-> {}, ret |-> ScalarZero]

\* The Composer of the ProverKey specifications: fresh and left alone.
ComposerInit ==
    /\ composer = new
    /\ last = Call("new", << >>, << >>)
    /\ held = {composer.zero_var}
    /\ prover_key = None
    /\ calls = 0

\* The gadget of test_cube_table before it runs.
NoGadget == [locals |-> << >>, queried |-> {}, asserted |-> {}]

\* The ProverKey of the Composer specifications: no worker runs, and the
\* gadget of test_cube_table is not run.
ProverIdle ==
    /\ gadget = NoGadget
    /\ pkey = IdentityKey
    /\ workers = [w \in Workers |-> IdleWorker]
    /\ lin = None

Init ==
    /\ ProverIdle
    /\ \/ /\ composer = new
          /\ last = Call("new", << >>, << >>)
       \/ \E expected_size \in 0 .. MaxExpectedSize :
            /\ composer = with_expected_size(expected_size)
            /\ last = Call("with_expected_size", << expected_size >>, << >>)
    /\ held = {composer.zero_var}
    /\ prover_key = None
    /\ calls = 0

AddInput(limit) ==
    /\ calls < limit
    /\ \E s \in InputScalars :
        LET r == add_input(composer, s)
        IN  /\ composer' = r.composer
            /\ held' = held \cup {r.ret[1]}
            /\ last' = Call("add_input", << s >>, r.ret)
    /\ calls' = calls + 1
    /\ UNCHANGED << proverVars, gadget >>
    /\ UNCHANGED prover_key

AddWitnessToCircuitDescription(limit) ==
    /\ calls < limit
    /\ \E value \in InputScalars :
        LET r == add_witness_to_circuit_description(composer, value)
        IN  /\ composer' = r.composer
            /\ held' = held \cup {r.ret[1]}
            /\ last' = Call("add_witness_to_circuit_description", << value >>, r.ret)
    /\ calls' = calls + 1
    /\ UNCHANGED << proverVars, gadget >>
    /\ UNCHANGED prover_key

LookupGate(limit) ==
    /\ calls < limit
    /\ \E a \in held, b \in held, c \in held :
        LET r == lookup_gate(composer, a, b, c)
        IN  /\ composer' = r.composer
            /\ last' = Call("lookup_gate", << a, b, c >>, r.ret)
    /\ calls' = calls + 1
    /\ UNCHANGED << proverVars, gadget >>
    /\ UNCHANGED << held, prover_key >>

PolyGate(limit) ==
    /\ calls < limit
    /\ \E a \in held, b \in held, c \in held, q \in SelectorChoices, pi \in PublicInputs :
        LET r == poly_gate(composer, a, b, c, q[1], q[2], q[3], q[4], q[5], pi)
        IN  /\ composer' = r.composer
            /\ last' = Call("poly_gate",
                            << a, b, c, q[1], q[2], q[3], q[4], q[5], pi >>, r.ret)
    /\ calls' = calls + 1
    /\ UNCHANGED << proverVars, gadget >>
    /\ UNCHANGED << held, prover_key >>

ConstrainToConstant(limit) ==
    /\ calls < limit
    /\ \E a \in held, constant \in InputScalars, pi \in PublicInputs :
        LET r == constrain_to_constant(composer, a, constant, pi)
        IN  /\ composer' = r.composer
            /\ last' = Call("constrain_to_constant", << a, constant, pi >>, r.ret)
    /\ calls' = calls + 1
    /\ UNCHANGED << proverVars, gadget >>
    /\ UNCHANGED << held, prover_key >>

AssertEqual(limit) ==
    /\ calls < limit
    /\ \E a \in held, b \in held :
        LET r == assert_equal(composer, a, b)
        IN  /\ composer' = r.composer
            /\ last' = Call("assert_equal", << a, b >>, r.ret)
    /\ calls' = calls + 1
    /\ UNCHANGED << proverVars, gadget >>
    /\ UNCHANGED << held, prover_key >>

AddOneDummyConstraint(limit) ==
    /\ calls < limit
    /\ LET r == add_one_dummy_constraint(composer)
       IN  /\ composer' = r.composer
           /\ last' = Call("add_one_dummy_constraint", << >>, r.ret)
    /\ calls' = calls + 1
    /\ UNCHANGED << proverVars, gadget >>
    /\ UNCHANGED << held, prover_key >>

AddDummyConstraints(limit) ==
    /\ calls < limit
    /\ LET r == add_dummy_constraints(composer)
       IN  /\ composer' = r.composer
           /\ last' = Call("add_dummy_constraints", << >>, r.ret)
    /\ calls' = calls + 1
    /\ UNCHANGED << proverVars, gadget >>
    /\ UNCHANGED << held, prover_key >>

PlookupGate(limit) ==
    /\ calls < limit
    /\ \E a \in held, b \in held, c \in held,
          d \in {None} \cup {Some(v) : v \in held}, pi \in PublicInputs :
        LET r == plookup_gate(composer, a, b, c, d, pi)
        IN  /\ composer' = r.composer
            /\ last' = Call("plookup_gate", << a, b, c, d, pi >>, r.ret)
    /\ calls' = calls + 1
    /\ UNCHANGED << proverVars, gadget >>
    /\ UNCHANGED << held, prover_key >>

Preprocess(limit) ==
    /\ calls < limit
    /\ prover_key = None
    /\ prover_key' = Some(preprocess(composer))
    /\ last' = Call("preprocess", << >>, << >>)
    /\ calls' = calls + 1
    /\ UNCHANGED << proverVars, gadget >>
    /\ UNCHANGED << composer, held >>

Next ==
    \/ AddInput(MaxCalls)
    \/ AddWitnessToCircuitDescription(MaxCalls)
    \/ LookupGate(MaxCalls)
    \/ PolyGate(MaxCalls)
    \/ ConstrainToConstant(MaxCalls)
    \/ AssertEqual(MaxCalls)
    \/ AddOneDummyConstraint(MaxCalls)
    \/ AddDummyConstraints(MaxCalls)
    \/ PlookupGate(MaxCalls)
    \/ Preprocess(MaxCalls)

Spec == Init /\ [][Next]_vars

\* The same Composer and the same calls, one call deeper.
NextDeep ==
    \/ AddInput(MaxDeepCalls)
    \/ AddWitnessToCircuitDescription(MaxDeepCalls)
    \/ LookupGate(MaxDeepCalls)
    \/ PolyGate(MaxDeepCalls)
    \/ ConstrainToConstant(MaxDeepCalls)
    \/ AssertEqual(MaxDeepCalls)
    \/ AddOneDummyConstraint(MaxDeepCalls)
    \/ AddDummyConstraints(MaxDeepCalls)
    \/ PlookupGate(MaxDeepCalls)
    \/ Preprocess(MaxDeepCalls)

SpecDeep == Init /\ [][NextDeep]_vars

(***************************************************************************)
(* compute_quotient_i, one action per statement of its body.  A worker w   *)
(* of ws calls it, computes the terms a to g in order and returns their    *)
(* sum.  The first read of a table at an index beyond it panics.           *)
(***************************************************************************)
CallComputeQuotientI(ws, inputs) ==
    /\ lin = None
    /\ \E w \in ws, index \in 0 .. MaxIndex, in \in inputs :
        /\ workers[w].pc = "idle"
        /\ workers' = [workers EXCEPT ![w] =
                          [IdleWorker EXCEPT !.pc = "a", !.index = index, !.args = in]]
    /\ UNCHANGED << pkey, lin, composerVars, gadget >>

IdentityRangeCheck(ws) ==
    /\ \E w \in ws :
        LET me == workers[w]
            in == me.args
        IN  /\ me.pc = "a"
            /\ workers' = [workers EXCEPT ![w] =
                  IF InRange(pkey.linear_evaluations, me.index)
                  THEN [me EXCEPT !.pc = "b",
                                  !.a = compute_quotient_identity_range_check_i(
                                            pkey, me.index, in.w_l_i, in.w_r_i, in.w_o_i,
                                            in.w_4_i, in.z_i, in.alpha, in.beta, in.gamma)]
                  ELSE [me EXCEPT !.pc = "panicked"]]
    /\ UNCHANGED << pkey, lin, composerVars, gadget >>

CopyRangeCheck(ws) ==
    /\ \E w \in ws :
        LET me == workers[w]
            in == me.args
        IN  /\ me.pc = "b"
            /\ workers' = [workers EXCEPT ![w] =
                  IF QuotientIndexInRange(pkey, me.index)
                  THEN [me EXCEPT !.pc = "c",
                                  !.b = compute_quotient_copy_range_check_i(
                                            pkey, me.index, in.w_l_i, in.w_r_i, in.w_o_i,
                                            in.w_4_i, in.z_i_next, in.alpha, in.beta,
                                            in.gamma)]
                  ELSE [me EXCEPT !.pc = "panicked"]]
    /\ UNCHANGED << pkey, lin, composerVars, gadget >>

LookupIdentityRangeCheck(ws) ==
    /\ \E w \in ws :
        LET me == workers[w]
            in == me.args
        IN  /\ me.pc = "c"
            /\ workers' = [workers EXCEPT ![w] =
                  [me EXCEPT !.pc = "d",
                             !.c = compute_lookup_quotient_identity_range_check_i(
                                       pkey, me.index, in.f_i, in.t_i, in.t_i_next, in.p_i,
                                       in.alpha, in.delta, in.epsilon, in.omega_roots)]]
    /\ UNCHANGED << pkey, lin, composerVars, gadget >>

LookupCopyRangeCheck(ws) ==
    /\ \E w \in ws :
        LET me == workers[w]
            in == me.args
        IN  /\ me.pc = "d"
            /\ workers' = [workers EXCEPT ![w] =
                  [me EXCEPT !.pc = "e",
                             !.d = compute_lookup_quotient_copy_range_check_i(
                                       pkey, me.index, in.h_1_i, in.h_2_i, in.h_1_i_next,
                                       in.h_2_i_next, in.p_i_next, in.alpha, in.delta,
                                       in.epsilon, in.omega_roots)]]
    /\ UNCHANGED << pkey, lin, composerVars, gadget >>

FirstLagrangeCheck(ws) ==
    /\ \E w \in ws :
        LET me == workers[w]
            in == me.args
        IN  /\ me.pc = "e"
            /\ workers' = [workers EXCEPT ![w] =
                  [me EXCEPT !.pc = "f",
                             !.e = compute_quotient_term_check_first_la_grange_polys(
                                       pkey, in.z_i, in.p_i, in.l1_alpha_sq,
                                       in.l1_alpha_4)]]
    /\ UNCHANGED << pkey, lin, composerVars, gadget >>

LastLagrangeCheck(ws) ==
    /\ \E w \in ws :
        LET me == workers[w]
            in == me.args
        IN  /\ me.pc = "f"
            /\ workers' = [workers EXCEPT ![w] =
                  [me EXCEPT !.pc = "g",
                             !.f = compute_quotient_last_la_grange_polys(
                                       pkey, in.p_i, in.ln_alpha_7)]]
    /\ UNCHANGED << pkey, lin, composerVars, gadget >>

\* g is the reference compute_overlap_check returns: the values a read
\* through it may give.
OverlapCheck(ws) ==
    /\ \E w \in ws :
        LET me == workers[w]
            in == me.args
        IN  /\ me.pc = "g"
            /\ workers' = [workers EXCEPT ![w] =
                  [me EXCEPT !.pc = "sum",
                             !.g = compute_overlap_check(pkey, in.h_1_i, in.h_2_i_next,
                                                         in.ln_alpha_6)]]
    /\ UNCHANGED << pkey, lin, composerVars, gadget >>

\* a + b + c + d + e + f + g, where g is read through the reference.
ReturnQuotient(ws) ==
    /\ \E w \in ws :
        LET me == workers[w]
        IN  /\ me.pc = "sum"
            /\ \E g \in me.g :
                workers' = [workers EXCEPT ![w] =
                    [me EXCEPT !.pc = "done",
                               !.ret = ScalarSum(<< me.a, me.b, me.c, me.d, me.e, me.f,
                                                    g >>)]]
    /\ UNCHANGED << pkey, lin, composerVars, gadget >>

\* compute_linearisation, called once while no worker runs.
ComputeLinearisation ==
    /\ lin = None
    /\ \A w \in Workers : workers[w].pc = "idle"
    /\ \E in \in ProbeLinearisationArgs :
        lin' = Some([args |-> in,
                     terms |-> compute_linearisation_terms(pkey, in),
                     ret |-> compute_linearisation(pkey, in)])
    /\ UNCHANGED << pkey, workers, composerVars, gadget >>

ProverInit ==
    /\ ComposerInit
    /\ gadget = NoGadget
    /\ pkey \in ProverKeys
    /\ workers = [w \in Workers |-> IdleWorker]
    /\ lin = None

\* One caller: a single evaluation of compute_quotient_i over the probe
\* arguments or over the arguments of a last row, or one call of
\* compute_linearisation.
ProverNext ==
    \/ CallComputeQuotientI({1}, ProbeQuotientArgs)
    \/ CallComputeQuotientI({1}, LastRowQuotientArgs)
    \/ IdentityRangeCheck({1})
    \/ CopyRangeCheck({1})
    \/ LookupIdentityRangeCheck({1})
    \/ LookupCopyRangeCheck({1})
    \/ FirstLagrangeCheck({1})
    \/ LastLagrangeCheck({1})
    \/ OverlapCheck({1})
    \/ ReturnQuotient({1})
    \/ ComputeLinearisation

ProverSpec == ProverInit /\ [][ProverNext]_vars

\* All workers evaluate compute_quotient_i concurrently, one statement at a
\* time, over the base arguments.
WorkersNext ==
    \/ CallComputeQuotientI(Workers, BaseQuotientArgs)
    \/ IdentityRangeCheck(Workers)
    \/ CopyRangeCheck(Workers)
    \/ LookupIdentityRangeCheck(Workers)
    \/ LookupCopyRangeCheck(Workers)
    \/ FirstLagrangeCheck(Workers)
    \/ LastLagrangeCheck(Workers)
    \/ OverlapCheck(Workers)
    \/ ReturnQuotient(Workers)

WorkersSpec == ProverInit /\ [][WorkersNext]_vars

(***************************************************************************)
(* test_cube_table run by gadget_plookup_tester: the gadget binds its nine *)
(* inputs, adds the four lookup queries and the two sums, the tester pads  *)
(* the circuit with dummy constraints up to the length of the table and    *)
(* preprocesses it.  The queries are added in any order, and so are the    *)
(* sums; the order of the test is one of them.                             *)
(***************************************************************************)
\* The gadget's inputs, in the order it binds them: local name and value.
CubeLocals ==
    << << "zero", 0 >>, << "one", 1 >>, << "one_cubed", 1 >>,
       << "nine", 9 >>, << "nine_cubed", 9 * 9 * 9 >>,
       << "ten", 10 >>, << "ten_cubed", 10 * 10 * 10 >>,
       << "twelve", 12 >>, << "twelve_cubed", 12 * 12 * 12 >> >>

\* The lookup queries (x, x cubed).
CubeQueries ==
    { << "one", "one_cubed" >>, << "nine", "nine_cubed" >>,
      << "ten", "ten_cubed" >>, << "twelve", "twelve_cubed" >> }

\* The two ways of writing 1729 as a sum of two cubes.
CubeSums == { << "one_cubed", "twelve_cubed" >>, << "nine_cubed", "ten_cubed" >> }

GadgetAddInput ==
    /\ prover_key = None
    /\ Cardinality(DOMAIN gadget.locals) < Len(CubeLocals)
    /\ LET local == CubeLocals[Cardinality(DOMAIN gadget.locals) + 1]
           value == ScalarFrom(local[2])
           r == add_input(composer, value)
       IN  /\ composer' = r.composer
           /\ gadget' = [gadget EXCEPT !.locals = (local[1] :> r.ret[1]) @@ @]
           /\ held' = held \cup {r.ret[1]}
           /\ last' = Call("add_input", << value >>, r.ret)
    /\ calls' = calls + 1
    /\ UNCHANGED << prover_key, proverVars >>

GadgetPlookupGate ==
    /\ prover_key = None
    /\ Cardinality(DOMAIN gadget.locals) = Len(CubeLocals)
    /\ \E q \in CubeQueries \ gadget.queried :
        LET x == gadget.locals[q[1]]
            x_cubed == gadget.locals[q[2]]
            zero == gadget.locals["zero"]
            r == plookup_gate(composer, x, x_cubed, zero, Some(zero), ScalarZero)
        IN  /\ composer' = r.composer
            /\ gadget' = [gadget EXCEPT !.queried = @ \cup {q}]
            /\ last' = Call("plookup_gate",
                            << x, x_cubed, zero, Some(zero), ScalarZero >>, r.ret)
    /\ calls' = calls + 1
    /\ UNCHANGED << held, prover_key, proverVars >>

GadgetPolyGate ==
    /\ prover_key = None
    /\ gadget.queried = CubeQueries
    /\ \E sum \in CubeSums \ gadget.asserted :
        LET a == gadget.locals[sum[1]]
            b == gadget.locals[sum[2]]
            zero == gadget.locals["zero"]
            pi == ScalarNeg(ScalarFrom(1729))
            r == poly_gate(composer, a, b, zero, ScalarZero, ScalarOne, ScalarOne,
                           ScalarZero, ScalarZero, pi)
        IN  /\ composer' = r.composer
            /\ gadget' = [gadget EXCEPT !.asserted = @ \cup {sum}]
            /\ last' = Call("poly_gate",
                            << a, b, zero, ScalarZero, ScalarOne, ScalarOne,
                               ScalarZero, ScalarZero, pi >>, r.ret)
    /\ calls' = calls + 1
    /\ UNCHANGED << held, prover_key, proverVars >>

\* gadget_plookup_tester: add_one_dummy_constraint while the circuit is
\* shorter than the table.
PadToTable ==
    /\ prover_key = None
    /\ gadget.asserted = CubeSums
    /\ Len(composer.w_l) < Len(cube_table)
    /\ LET r == add_one_dummy_constraint(composer)
       IN  /\ composer' = r.composer
           /\ last' = Call("add_one_dummy_constraint", << >>, r.ret)
    /\ calls' = calls + 1
    /\ UNCHANGED << held, prover_key, gadget, proverVars >>

\* gadget_plookup_tester: preprocess the padded circuit.
PreprocessPadded ==
    /\ prover_key = None
    /\ gadget.asserted = CubeSums
    /\ Len(composer.w_l) >= Len(cube_table)
    /\ prover_key' = Some(preprocess(composer))
    /\ last' = Call("preprocess", << >>, << >>)
    /\ calls' = calls + 1
    /\ UNCHANGED << composer, held, gadget, proverVars >>

CubeInit ==
    /\ ComposerInit
    /\ gadget = NoGadget
    /\ pkey = IdentityKey
    /\ workers = [w \in Workers |-> IdleWorker]
    /\ lin = None

CubeNext ==
    \/ GadgetAddInput
    \/ GadgetPlookupGate
    \/ GadgetPolyGate
    \/ PadToTable
    \/ PreprocessPadded

CubeSpec == CubeInit /\ [][CubeNext]_vars

(***************************************************************************)
(* Vocabulary of the properties.                                           *)
(***************************************************************************)
SelectorNames ==
    { "q_m", "q_l", "q_r", "q_o", "q_4", "q_c", "q_arith", "q_range", "q_logic",
      "q_fixed_group_add", "q_variable_group_add", "q_lookup" }

WireNames == { "w_l", "w_r", "w_o", "w_4" }

VectorNames == SelectorNames \cup WireNames \cup { "public_inputs" }

\* The entry at 0-based index i of a Vec.
At(vec, i) == vec[i + 1]

\* Row i of the Composer exists and is the given one: the four wires, the
\* twelve selectors (sel maps each selector name to a value) and the public
\* input, all read at the same index i.
RowIs(self, i, wl, wr, wo, w4, sel, pi) ==
    /\ \A f \in VectorNames : i < Len(self[f])
    /\ At(self.w_l, i) = wl
    /\ At(self.w_r, i) = wr
    /\ At(self.w_o, i) = wo
    /\ At(self.w_4, i) = w4
    /\ \A f \in SelectorNames : At(self[f], i) = sel[f]
    /\ At(self.public_inputs, i) = pi

\* Every vector of `after` is the same vector of `before` with exactly one
\* entry appended.
OneEntryAppended(before, after) ==
    \A f \in VectorNames :
        /\ Len(after[f]) = Len(before[f]) + 1
        /\ SubSeq(after[f], 1, Len(before[f])) = before[f]

\* The selector values of a row that enables the lookup selector only.
LookupOnlySelectors == [f \in SelectorNames |-> IF f = "q_lookup" THEN ScalarOne ELSE ScalarZero]

\* The selector values of a poly_gate row.
ArithSelectors(q_m, q_l, q_r, q_o, q_c) ==
    [f \in SelectorNames |->
        CASE f = "q_m" -> q_m
          [] f = "q_l" -> q_l
          [] f = "q_r" -> q_r
          [] f = "q_o" -> q_o
          [] f = "q_c" -> q_c
          [] f = "q_arith" -> ScalarOne
          [] OTHER -> ScalarZero]

\* The occurrences (in wire-role order) that a registration of wires
\* (a, b, c, d) at row gate_index adds to Variable v's list.
OccurrencesOf(v, a, b, c, d, gate_index) ==
    LET wires == << a, b, c, d >>
        IsV(k) == wires[k] = v
        Pick[k \in 0 .. 4] ==
            IF k = 0 THEN << >>
            ELSE IF IsV(k) THEN Append(Pick[k - 1], WireData(WireRoles[k], gate_index))
                 ELSE Pick[k - 1]
    IN  Pick[4]

\* The tracker `after` is `before` with the four occurrences of row
\* gate_index registered, and nothing else changed.
Registered(before, after, a, b, c, d, gate_index) ==
    /\ DOMAIN after.variable_map = DOMAIN before.variable_map
    /\ \A v \in DOMAIN after.variable_map :
        after.variable_map[v] =
            before.variable_map[v] \o OccurrencesOf(v, a, b, c, d, gate_index)

(***************************************************************************)
(* C1.  After any sequence of gate-adding calls, each of the twelve        *)
(* selector vectors, each of the four wire vectors and public_inputs has   *)
(* length exactly circuit_size().                                          *)
(* lookup_gate pushes three entries to w_l, none to w_r, w_o and           *)
(* public_inputs, and leaves n alone, so the statement fails after it.     *)
(***************************************************************************)
LengthsEqualCircuitSize ==
    \A f \in VectorNames : Len(composer[f]) = circuit_size(composer)

\* The Composer is as its constructor left it.
Fresh == last.op \in { "new", "with_expected_size" }

(***************************************************************************)
(* C2.  circuit_size() of a freshly constructed PlookupComposer (new() or  *)
(* with_expected_size(k)) is 3: the row forcing the zero variable to zero  *)
(* and the two dummy rows.                                                 *)
(***************************************************************************)
FreshCircuitSizeIsThree ==
    Fresh =>
        /\ circuit_size(composer) = 3
        /\ RowIs(composer, 0, composer.zero_var, composer.zero_var,
                 composer.zero_var, composer.zero_var,
                 ArithSelectors(ScalarZero, ScalarOne, ScalarZero, ScalarZero,
                                ScalarZero), ScalarZero)
        /\ composer.variables[composer.zero_var] = ScalarZero

FreshWithExpectedSize ==
    /\ last.op = "with_expected_size"
    /\ last.args[1] = MaxExpectedSize
    /\ calls = 0
    /\ Len(composer.w_l) = 3

(***************************************************************************)
(* C3.  When the Variable arguments of every call were returned earlier by *)
(* add_input or add_witness_to_circuit_description of this Composer, every *)
(* Variable stored in w_l, w_r, w_o or w_4 is a key of the variables map.  *)
(***************************************************************************)
WiresResolve ==
    \A f \in WireNames : \A i \in 1 .. Len(composer[f]) :
        composer[f][i] \in DOMAIN composer.variables

\* A Variable returned by a user call of add_input sits in a wire vector.
UserVariableOnWire ==
    /\ calls = MaxCalls
    /\ \E v \in held \ {composer.zero_var} : \E f \in WireNames :
        \E i \in 1 .. Len(composer[f]) : composer[f][i] = v

(***************************************************************************)
(* C4.  lookup_gate(a, b, c) appends exactly one row with wires            *)
(* (a, b, c, zero_var), every selector zero except q_lookup = 1, and a     *)
(* zero public-input entry.                                                *)
(* It fails on the code: a, b and c all go to w_l, and w_r, w_o and        *)
(* public_inputs get no entry.                                             *)
(***************************************************************************)
LookupGateAppendsRow ==
    [][last'.op = "lookup_gate" =>
        /\ OneEntryAppended(composer, composer')
        /\ RowIs(composer', circuit_size(composer),
                 last'.args[1], last'.args[2], last'.args[3], composer.zero_var,
                 LookupOnlySelectors, ScalarZero)]_vars

(***************************************************************************)
(* C5.  poly_gate(a, b, c, q_m, q_l, q_r, q_o, q_c, pi) appends exactly    *)
(* one row at index n = circuit_size(): wires (a, b, c, zero_var), the     *)
(* given selectors, q_4 = 0, q_arith = 1, the other selectors 0, public    *)
(* input pi; it registers the four occurrences at row n, increases         *)
(* circuit_size() by 1 and returns (a, b, c).                              *)
(***************************************************************************)
PolyGateAppendsRow ==
    [][last'.op = "poly_gate" =>
        LET n == circuit_size(composer)
            x == last'.args
        IN  /\ OneEntryAppended(composer, composer')
            /\ RowIs(composer', n, x[1], x[2], x[3], composer.zero_var,
                     ArithSelectors(x[4], x[5], x[6], x[7], x[8]), x[9])
            /\ Registered(composer.perm, composer'.perm,
                          x[1], x[2], x[3], composer.zero_var, n)
            /\ circuit_size(composer') = n + 1
            /\ last'.ret = << x[1], x[2], x[3] >>]_vars

(***************************************************************************)
(* C6.  plookup_gate(a, b, c, d, pi) appends exactly one row at index      *)
(* n = circuit_size() with wires (a, b, c, d'), d' the advice Variable of  *)
(* Some(d) and zero_var for None; q_lookup = 1, every other selector 0;    *)
(* public input pi; the four occurrences are registered at row n;          *)
(* circuit_size() grows by 1; c is returned.                               *)
(***************************************************************************)
PlookupGateAppendsRow ==
    [][last'.op = "plookup_gate" =>
        LET n == circuit_size(composer)
            x == last'.args
            dd == IF x[4] = None THEN composer.zero_var ELSE x[4][1]
        IN  /\ OneEntryAppended(composer, composer')
            /\ RowIs(composer', n, x[1], x[2], x[3], dd, LookupOnlySelectors, x[5])
            /\ Registered(composer.perm, composer'.perm, x[1], x[2], x[3], dd, n)
            /\ circuit_size(composer') = n + 1
            /\ last'.ret = << x[3] >>]_vars

(***************************************************************************)
(* C7.  Once preprocessing has read the row vectors the Composer is        *)
(* frozen: no later operation changes the selector, wire or public-input   *)
(* vectors or circuit_size().                                              *)
(***************************************************************************)
FrozenAfterPreprocessing ==
    [][prover_key # None => RowVectors(composer') = RowVectors(composer)]_vars

(***************************************************************************)
(* C8.  In a freshly constructed Composer and every state reachable from   *)
(* it, no selector column is identically zero: each of the twelve selector *)
(* vectors has a nonzero entry.                                            *)
(***************************************************************************)
NoZeroSelectorColumn ==
    \A f \in SelectorNames :
        \E i \in 1 .. Len(composer[f]) : composer[f][i] # ScalarZero

\* The (wire vector, index) slots of the wire vectors that hold Variable v.
WireSlotsOf(self, v) ==
    UNION { { << f, i >> : i \in { j \in 0 .. (Len(self[f]) - 1) : At(self[f], j) = v } } :
            f \in WireNames }

(***************************************************************************)
(* C9.  In a freshly constructed Composer and every state reachable from   *)
(* it, the wire permutation is not the identity: at least one Variable     *)
(* occurs in two distinct (wire-role, row-index) slots, so the sigma       *)
(* mappings move at least one wire slot.  The dummy rows provide such a    *)
(* Variable themselves: one that is not the zero pad.                      *)
(***************************************************************************)
WirePermutationNotIdentity ==
    /\ \E v \in DOMAIN composer.variables \ {composer.zero_var} :
        /\ Cardinality(WireSlotsOf(composer, v)) >= 2
        /\ Len(composer.perm.variable_map[v]) >= 2
    /\ LET sigma == compute_sigma_permutations(composer.perm, circuit_size(composer))
       IN  \E slot \in DOMAIN sigma : sigma[slot] # slot

\* add_dummy_constraints has been called on a Composer by the caller.
AfterAddDummyConstraints ==
    /\ last.op = "add_dummy_constraints"
    /\ circuit_size(composer) >= 5
    /\ LET sigma == compute_sigma_permutations(composer.perm, circuit_size(composer))
       IN  sigma[WireData("Right", circuit_size(composer) - 1)]
               # WireData("Right", circuit_size(composer) - 1)

\* The left-hand side of the gate equation of row i under the Arena values.
GateEquationValue(self, i) ==
    LET a == self.variables[At(self.w_l, i)]
        b == self.variables[At(self.w_r, i)]
        c == self.variables[At(self.w_o, i)]
        Sum(x, y) == ScalarAdd(x, y)
    IN  Sum(Sum(Sum(Sum(Sum(ScalarMul(At(self.q_m, i), ScalarMul(a, b)),
                            ScalarMul(At(self.q_l, i), a)),
                        ScalarMul(At(self.q_r, i), b)),
                    ScalarMul(At(self.q_o, i), c)),
                At(self.q_c, i)),
            At(self.public_inputs, i))

(***************************************************************************)
(* C10.  assert_equal(a, b) spends exactly one row: circuit_size() grows   *)
(* by 1 and the row appended has wires (a, b, zero_var, zero_var),         *)
(* q_l = 1, q_r = -1, q_m = q_o = q_c = q_4 = 0 and public input 0, so     *)
(* that the row's gate equation                                            *)
(*   q_m*a*b + q_l*a + q_r*b + q_o*c + q_c + pi = 0                        *)
(* holds under the values of the variables map iff value(a) = value(b).    *)
(***************************************************************************)
AssertEqualSpendsOneRow ==
    [][last'.op = "assert_equal" =>
        LET n == circuit_size(composer)
            a == last'.args[1]
            b == last'.args[2]
        IN  /\ circuit_size(composer') = n + 1
            /\ OneEntryAppended(composer, composer')
            /\ RowIs(composer', n, a, b, composer.zero_var, composer.zero_var,
                     ArithSelectors(ScalarZero, ScalarOne, ScalarNeg(ScalarOne),
                                    ScalarZero, ScalarZero), ScalarZero)
            /\ (GateEquationValue(composer', n) = ScalarZero
                    <=> composer'.variables[a] = composer'.variables[b])]_vars


(***************************************************************************)
(* C11.  add_witness_to_circuit_description(value) returns a newly issued  *)
(* Variable v bound to value and appends exactly one constant-equality row *)
(* at index n = circuit_size(): wires (v, v, v, zero_var), q_l = 1,        *)
(* q_c = -value, q_m = q_r = q_o = 0, public input 0, whose gate equation  *)
(* holds under the bound value.  constrain_to_constant(a, constant, pi)    *)
(* appends exactly one row (a, a, a, zero_var) with q_l = 1,               *)
(* q_c = -constant and public input pi.                                    *)
(***************************************************************************)
AddWitnessAppendsConstantRow ==
    [][/\ last'.op = "add_witness_to_circuit_description" =>
            LET n == circuit_size(composer)
                value == last'.args[1]
                v == last'.ret[1]
            IN  /\ v \notin DOMAIN composer.variables
                /\ composer'.variables[v] = value
                /\ OneEntryAppended(composer, composer')
                /\ RowIs(composer', n, v, v, v, composer.zero_var,
                         ArithSelectors(ScalarZero, ScalarOne, ScalarZero, ScalarZero,
                                        ScalarNeg(value)), ScalarZero)
                /\ GateEquationValue(composer', n) = ScalarZero
       /\ last'.op = "constrain_to_constant" =>
            LET n == circuit_size(composer)
                x == last'.args
            IN  /\ OneEntryAppended(composer, composer')
                /\ RowIs(composer', n, x[1], x[1], x[1], composer.zero_var,
                         ArithSelectors(ScalarZero, ScalarOne, ScalarZero, ScalarZero,
                                        ScalarNeg(x[2])), x[3])]_vars

(***************************************************************************)
(* C12.  add_input(value) adds no gate row: circuit_size(), every selector *)
(* vector, every wire vector and public_inputs are unchanged, every        *)
(* binding of the variables map is unchanged, exactly one binding          *)
(* (returned Variable -> value) is added, and the returned Variable was    *)
(* not issued earlier by this Composer.                                    *)
(***************************************************************************)
AddInputAddsNoRow ==
    [][last'.op = "add_input" =>
        LET v == last'.ret[1]
        IN  /\ RowVectors(composer') = RowVectors(composer)
            /\ circuit_size(composer') = circuit_size(composer)
            /\ v \notin DOMAIN composer.perm.variable_map
            /\ v \notin DOMAIN composer.variables
            /\ DOMAIN composer'.variables = DOMAIN composer.variables \cup {v}
            /\ \A u \in DOMAIN composer.variables :
                    composer'.variables[u] = composer.variables[u]
            /\ composer'.variables[v] = last'.args[1]
            /\ composer'.zero_var = composer.zero_var]_vars

\* The caller has called add_input twice in a row and holds two Variables
\* besides zero_var, the second bound to one.
AfterTwoAddInputs ==
    /\ last.op = "add_input"
    /\ last.args[1] = ScalarOne
    /\ composer.variables[last.ret[1]] = ScalarOne
    /\ Cardinality(held) = 3
    /\ circuit_size(composer) = 3

(***************************************************************************)
(* C13.  In a freshly constructed Composer zero_var is the first Variable  *)
(* the tracker issues, it is bound to the field's zero, and the pad wire   *)
(* in w_4 of row 0 (the row forcing it to zero) is that same Variable; in  *)
(* every later reachable state zero_var is still that Variable and still   *)
(* bound to zero.                                                          *)
(***************************************************************************)
ZeroVarBoundToZero ==
    /\ composer.zero_var = new_variable(Permutation_new).ret
    /\ composer.zero_var \in DOMAIN composer.variables
    /\ composer.variables[composer.zero_var] = ScalarZero
    /\ At(composer.w_4, 0) = composer.zero_var
    /\ At(composer.w_l, 0) = composer.zero_var

\* The caller has bound other Variables, one of them to a nonzero value by
\* add_witness_to_circuit_description, after construction.
ZeroVarAfterNonzeroWitness ==
    /\ calls = MaxCalls
    /\ last.op = "add_witness_to_circuit_description"
    /\ last.args[1] = ScalarOne
    /\ Cardinality(DOMAIN composer.variables \ {composer.zero_var}) >= 3
    /\ composer.variables[composer.zero_var] = ScalarZero

(***************************************************************************)
(* C14.  lookup_gate performs no table-membership check: for every triple  *)
(* of Variables (a, b, c), whether or not their values form a row of a     *)
(* lookup table, it returns Ok(()) and never a PreProcessingError.         *)
(***************************************************************************)
LookupGateAlwaysOk ==
    [][last'.op = "lookup_gate" => last'.ret = Ok(<< >>)]_vars

\* lookup_gate has accepted a triple whose values are no row of cube_table.
LookupGateOfNonMember ==
    /\ last.op = "lookup_gate"
    /\ last.ret = Ok(<< >>)
    /\ ~ TripleInTable(cube_table, composer.variables[last.args[1]],
                       composer.variables[last.args[2]],
                       composer.variables[last.args[3]])
    /\ composer.variables[last.args[1]] = ScalarOne
    /\ Len(composer.q_lookup) = 4

\* The seven terms of the quotient contribution at the domain point with
\* identity evaluation x and sigma evaluations s1 .. s4.
SevenTermSum(x, s1, s2, s3, s4, in) ==
    LET Plus(u, v) == ScalarAdd(u, v)
        Times(u, v) == ScalarMul(u, v)
        Minus(u, v) == ScalarSub(u, v)
        alpha5 == ScalarPow(in.alpha, 5)
        one_delta == Plus(ScalarOne, in.delta)
        eps_one_delta == Times(in.epsilon, one_delta)
        Wire(w, shift) == Plus(Plus(w, Times(in.beta, shift)), in.gamma)
        term1 == ScalarProduct(<< Wire(in.w_l_i, x), Wire(in.w_r_i, Times(K1, x)),
                                  Wire(in.w_o_i, Times(K2, x)),
                                  Wire(in.w_4_i, Times(K3, x)), in.z_i, in.alpha >>)
        term2 == ScalarNeg(ScalarProduct(<< Wire(in.w_l_i, s1), Wire(in.w_r_i, s2),
                                            Wire(in.w_o_i, s3), Wire(in.w_4_i, s4),
                                            in.z_i_next, in.alpha >>))
        term3 == ScalarProduct(<< Minus(x, in.omega_roots), in.p_i, one_delta,
                                  Plus(in.epsilon, in.f_i),
                                  Plus(Plus(eps_one_delta, in.t_i),
                                       Times(in.delta, in.t_i_next)),
                                  alpha5 >>)
        term4 == ScalarNeg(ScalarProduct(<< in.p_i_next, Minus(x, in.omega_roots),
                                            Plus(Plus(eps_one_delta, in.h_1_i),
                                                 Times(in.delta, in.h_1_i_next)),
                                            Plus(Plus(eps_one_delta, in.h_2_i),
                                                 Times(in.delta, in.h_2_i_next)),
                                            alpha5 >>))
        term5 == Plus(Times(Minus(in.z_i, ScalarOne), in.l1_alpha_sq),
                      Times(Minus(in.p_i, ScalarOne), in.l1_alpha_4))
        term6 == Times(Minus(in.p_i, ScalarOne), in.ln_alpha_7)
        term7 == Times(Minus(in.h_1_i, in.h_2_i_next), in.ln_alpha_6)
    IN  ScalarSum(<< term1, term2, term3, term4, term5, term6, term7 >>)

QuotientTermNames ==
    { "permutation identity", "permutation copy", "lookup identity", "lookup copy",
      "first row", "last row", "overlap" }

(***************************************************************************)
(* C16.  The polynomial compute_linearisation returns is built from the    *)
(* same seven-term structure as compute_quotient_i: it is the sum of one   *)
(* scaled retained polynomial for each of the seven quotient terms.        *)
(* compute_linearisation adds three polynomials: z_poly scaled for the     *)
(* permutation identity, the fourth sigma polynomial scaled for the        *)
(* permutation copy, and z_poly scaled for the first-row check of z; the   *)
(* lookup identity, lookup copy, last-row and overlap terms have none.     *)
(***************************************************************************)
LinearisationHasSevenTerms ==
    lin # None =>
        /\ Len(lin[1].terms) = Cardinality(QuotientTermNames)
        /\ lin[1].ret = compute_linearisation(pkey, lin[1].args)

(***************************************************************************)
(* C17.  compute_quotient_i and compute_linearisation are total: for every *)
(* index and every choice of inputs they return a value and never panic,   *)
(* in particular for an index outside the stored evaluation tables.        *)
(* linear_evaluations[index] panics when index is not below the table's    *)
(* length.                                                                 *)
(***************************************************************************)
QuotientNeverPanics ==
    \A w \in Workers : workers[w].pc # "panicked"

RECURSIVE Walk(_, _, _)
Walk(sigma, slot, seen) ==
    IF slot \in seen THEN seen ELSE Walk(sigma, sigma[slot], seen \cup {slot})

CycleOf(sigma, slot) == Walk(sigma, slot, {})

\* The slots registered against Variable v in the tracker.
RegisteredSlots(perm, v) ==
    { perm.variable_map[v][k] : k \in 1 .. Len(perm.variable_map[v]) }

(***************************************************************************)
(* C19.  For the occurrences registered by any sequence of gate-adding     *)
(* calls, the sigma mappings compiled from the tracker are a permutation   *)
(* of all 4 * n wire slots, and two slots lie in the same cycle iff they   *)
(* were registered against the same Variable: every slot of the n rows is  *)
(* registered exactly once, and the cycle through a Variable's first       *)
(* occurrence is the set of slots registered against that Variable.        *)
(***************************************************************************)
SigmaCyclesAreVariableClasses ==
    LET n == circuit_size(composer)
        perm == composer.perm
        vm == perm.variable_map
        sigma == compute_sigma_permutations(perm, n)
        image == { sigma[slot] : slot \in Slots(n) }
    IN  /\ DOMAIN sigma = Slots(n)
        /\ Cardinality(Slots(n)) = 4 * n
        /\ image = Slots(n)
        /\ UNION { RegisteredSlots(perm, v) : v \in DOMAIN vm } = Slots(n)
        /\ \A v \in DOMAIN vm :
            /\ Cardinality(RegisteredSlots(perm, v)) = Len(vm[v])
            /\ \A w \in DOMAIN vm \ {v} :
                RegisteredSlots(perm, v) \cap RegisteredSlots(perm, w) = {}
            /\ vm[v] # << >> => CycleOf(sigma, vm[v][1]) = RegisteredSlots(perm, v)

\* The caller has wired a Variable of its own into two slots of a row it
\* added, and the cycle through that row's left slot has those slots.
UserVariableCycle ==
    /\ calls = MaxCalls
    /\ last.op = "poly_gate"
    /\ last.args[1] # composer.zero_var
    /\ last.args[1] = last.args[2]
    /\ last.args[3] = composer.zero_var
    /\ LET n == circuit_size(composer)
           sigma == compute_sigma_permutations(composer.perm, n)
       IN  CycleOf(sigma, WireData("Left", n - 1))
               = { WireData("Left", n - 1), WireData("Right", n - 1) }

\* The left-hand side of the arithmetic gate equation of row i, fourth wire
\* included, under the values of the variables map.
ArithmeticGateValue(self, i) ==
    LET a == self.variables[At(self.w_l, i)]
        b == self.variables[At(self.w_r, i)]
        c == self.variables[At(self.w_o, i)]
        d == self.variables[At(self.w_4, i)]
    IN  ScalarSum(<< ScalarMul(At(self.q_m, i), ScalarMul(a, b)),
                     ScalarMul(At(self.q_l, i), a),
                     ScalarMul(At(self.q_r, i), b),
                     ScalarMul(At(self.q_o, i), c),
                     ScalarMul(At(self.q_4, i), d),
                     At(self.q_c, i),
                     At(self.public_inputs, i) >>)

\* The values of the four wires of row i.
WireValues(self, i) ==
    << self.variables[At(self.w_l, i)], self.variables[At(self.w_r, i)],
       self.variables[At(self.w_o, i)], self.variables[At(self.w_4, i)] >>

\* Row i is satisfied: with the lookup selector on, its wire values are a
\* row of the table; with the arithmetic selector on, its gate equation
\* holds.
RowSatisfied(self, table, i) ==
    /\ At(self.q_lookup, i) # ScalarZero =>
            \E k \in 1 .. Len(table) : table[k] = WireValues(self, i)
    /\ At(self.q_arith, i) # ScalarZero => ArithmeticGateValue(self, i) = ScalarZero

AfterLookupIdentity == { "d", "e", "f", "g", "sum", "done" }

AfterLookupCopy == { "e", "f", "g", "sum", "done" }

\* The worker's index is the one of the last row: linear_evaluations[index]
\* is the omega_roots it was given.
AtLastRow(w) ==
    /\ InRange(pkey.linear_evaluations, workers[w].index)
    /\ Index(pkey.linear_evaluations, workers[w].index) = workers[w].args.omega_roots

(***************************************************************************)
(* C21.  The lookup-identity term (3) and the lookup-copy term (4) of      *)
(* compute_quotient_i exclude the last row: whenever                       *)
(* linear_evaluations[index] equals the supplied omega_roots, both terms   *)
(* are zero, whatever f_i, t_i, t_i_next, h_1_i, h_2_i, h_1_i_next,        *)
(* h_2_i_next, p_i, p_i_next, alpha, delta and epsilon are.                *)
(***************************************************************************)
LookupTermsVanishOnLastRow ==
    \A w \in Workers :
        (workers[w].pc \in AfterLookupIdentity \cup AfterLookupCopy /\ AtLastRow(w)) =>
            /\ workers[w].pc \in AfterLookupIdentity => workers[w].c = ScalarZero
            /\ workers[w].pc \in AfterLookupCopy => workers[w].d = ScalarZero

\* A call on the last row that has returned, with arguments all different
\* and no argument zero: every other factor of the two terms is nonzero.
LastRowQuotientReturned ==
    \E w \in Workers :
        LET in == workers[w].args
        IN  /\ workers[w].pc = "done"
            /\ AtLastRow(w)
            /\ in = [DistinctQuotientArgs EXCEPT !.omega_roots = in.omega_roots]
            /\ compute_lookup_quotient_identity_on_every_row(
                   pkey, workers[w].index, in.f_i, in.t_i, in.t_i_next, in.p_i,
                   in.alpha, in.delta, in.epsilon, in.omega_roots) # ScalarZero
            /\ workers[w].a # ScalarZero

\* The scalar coefficients of the linearisation polynomial, for the record
\* of arguments of a call.
\* A = (a_eval + beta z + gamma)(b_eval + beta K1 z + gamma)
\*     (c_eval + beta K2 z + gamma)(d_eval + beta K3 z + gamma) alpha
LinearisationA(in) ==
    LET Factor(eval, k) ==
            ScalarAdd(ScalarAdd(eval, ScalarMul(ScalarMul(in.beta, k), in.z_challenge)),
                      in.gamma)
    IN  ScalarMul(ScalarMul(ScalarMul(Factor(in.a_eval, ScalarOne), Factor(in.b_eval, K1)),
                            ScalarMul(Factor(in.c_eval, K2), Factor(in.d_eval, K3))),
                  in.alpha)

\* B = -(a_eval + beta sigma_1 + gamma)(b_eval + beta sigma_2 + gamma)
\*      (c_eval + beta sigma_3 + gamma) beta z_eval alpha
LinearisationB(in) ==
    LET Factor(eval, sigma) == ScalarAdd(ScalarAdd(eval, ScalarMul(in.beta, sigma)), in.gamma)
    IN  ScalarNeg(ScalarMul(ScalarMul(Factor(in.a_eval, in.sigma_1_eval),
                                      ScalarMul(Factor(in.b_eval, in.sigma_2_eval),
                                                Factor(in.c_eval, in.sigma_3_eval))),
                            ScalarMul(in.beta, ScalarMul(in.z_eval, in.alpha))))

\* C = L_1(z) alpha^2, L_1 the first Lagrange coefficient of the domain sized
\* from the degree of z_poly.
LinearisationC(in) ==
    ScalarMul(first_lagrange_coefficient(EvaluationDomain_new(PolynomialDegree(in.z_poly)),
                                         in.z_challenge),
              ScalarMul(in.alpha, in.alpha))

AppendedRow(before, after, i) ==
    /\ \A f \in VectorNames :
        /\ Len(after[f]) = i + 1
        /\ SubSeq(after[f], 1, Len(before[f])) = before[f]
    /\ circuit_size(after) = i + 1

\* The Variables bound by a call.
NewVariables(before, after) == DOMAIN after.variables \ DOMAIN before.variables

(***************************************************************************)
(* C23.  Every dummy row appended by add_dummy_constraints and             *)
(* add_one_dummy_constraint is internally consistent: with the values of   *)
(* its wires (6, 7, -20, 1 for the first kind of row; -20, 6, 7, 0 for the *)
(* second) and its selector values, the arithmetic gate equation           *)
(*   q_m*a*b + q_l*a + q_r*b + q_o*c + q_4*d + q_c + pi = 0                *)
(* holds; each call of add_one_dummy_constraint appends exactly one row    *)
(* and binds four new Variables.                                           *)
(***************************************************************************)
DummyRowsConsistent ==
    [][/\ last'.op = "add_one_dummy_constraint" =>
            LET n == circuit_size(composer)
            IN  /\ AppendedRow(composer, composer', n)
                /\ WireValues(composer', n)
                       = << ScalarFrom(6), ScalarFrom(7), ScalarNeg(ScalarFrom(20)), ScalarOne >>
                /\ ArithmeticGateValue(composer', n) = ScalarZero
                /\ Cardinality(NewVariables(composer, composer')) = 4
                /\ { At(composer'[w], n) : w \in WireNames } = NewVariables(composer, composer')
       /\ last'.op = "add_dummy_constraints" =>
            LET n == circuit_size(composer)
            IN  /\ AppendedRow(composer, composer', n + 1)
                /\ \A f \in VectorNames : Len(composer[f]) = n
                /\ WireValues(composer', n)
                       = << ScalarFrom(6), ScalarFrom(7), ScalarNeg(ScalarFrom(20)), ScalarOne >>
                /\ ArithmeticGateValue(composer', n) = ScalarZero
                /\ WireValues(composer', n + 1)
                       = << ScalarNeg(ScalarFrom(20)), ScalarFrom(6), ScalarFrom(7), ScalarZero >>
                /\ ArithmeticGateValue(composer', n + 1) = ScalarZero]_vars

\* The positions of compute_quotient_i after its terms a and b.
AfterCopyRangeCheck == { "c", "d", "e", "f", "g", "sum", "done" }

\* The two sides of the grand-product step at the worker's index:
\*   z_i (w_l + beta x + gamma)(w_r + beta K1 x + gamma)
\*       (w_o + beta K2 x + gamma)(w_4 + beta K3 x + gamma)
\*   z_i_next (w_l + beta s1 + gamma)(w_r + beta s2 + gamma)
\*            (w_o + beta s3 + gamma)(w_4 + beta s4 + gamma)
GrandProductSide(in, z, p_l, p_r, p_o, p_4) ==
    LET Factor(wire, point) == ScalarAdd(wire, ScalarAdd(ScalarMul(in.beta, point), in.gamma))
    IN  ScalarMul(z, ScalarMul(ScalarMul(Factor(in.w_l_i, p_l), Factor(in.w_r_i, p_r)),
                               ScalarMul(Factor(in.w_o_i, p_o), Factor(in.w_4_i, p_4))))

GrandProductStepHolds(w) ==
    LET in == workers[w].args
        index == workers[w].index
        x == Index(pkey.linear_evaluations, index)
    IN  GrandProductSide(in, in.z_i, x, ScalarMul(K1, x), ScalarMul(K2, x), ScalarMul(K3, x))
          = GrandProductSide(in, in.z_i_next,
                             Index(pkey.left_sigma[2], index), Index(pkey.right_sigma[2], index),
                             Index(pkey.out_sigma[2], index), Index(pkey.fourth_sigma[2], index))

\* The sigma evaluations at the worker's index are x, K1 x, K2 x, K3 x.
SigmaIsIdentityAt(w) ==
    LET index == workers[w].index
        x == Index(pkey.linear_evaluations, index)
    IN  /\ Index(pkey.left_sigma[2], index) = x
        /\ Index(pkey.right_sigma[2], index) = ScalarMul(K1, x)
        /\ Index(pkey.out_sigma[2], index) = ScalarMul(K2, x)
        /\ Index(pkey.fourth_sigma[2], index) = ScalarMul(K3, x)

(***************************************************************************)
(* C24.  For alpha # 0 the permutation identity term and the permutation   *)
(* copy term of compute_quotient_i sum to zero exactly when the            *)
(* grand-product step holds; in particular they cancel when the sigma      *)
(* evaluations at index are x, K1 x, K2 x, K3 x and z_i_next = z_i.        *)
(***************************************************************************)
PermutationTermsCancelIffGrandProductStep ==
    \A w \in Workers :
        (workers[w].pc \in AfterCopyRangeCheck /\ workers[w].args.alpha # ScalarZero) =>
            /\ ScalarAdd(workers[w].a, workers[w].b) = ScalarZero <=> GrandProductStepHolds(w)
            /\ (SigmaIsIdentityAt(w) /\ workers[w].args.z_i_next = workers[w].args.z_i)
                   => ScalarAdd(workers[w].a, workers[w].b) = ScalarZero

\* A call that has returned whose two permutation terms are nonzero and
\* cancel, on sigma evaluations other than x, K1 x, K2 x, K3 x.
PermutationTermsCancelOnSwappedKey ==
    \E w \in Workers :
        /\ workers[w].pc = "done"
        /\ workers[w].args.alpha # ScalarZero
        /\ workers[w].a # ScalarZero
        /\ ScalarAdd(workers[w].a, workers[w].b) = ScalarZero
        /\ ~ SigmaIsIdentityAt(w)

(***************************************************************************)
(* C25.  The Composer is append-only: across any sequence of operations    *)
(* circuit_size() never decreases, no selector, wire or public-input       *)
(* vector ever shrinks, the entries already in a vector are never modified *)
(* by a later operation, and a binding of the variables map once made is   *)
(* never changed or removed.                                               *)
(***************************************************************************)
ComposerAppendOnly ==
    [][/\ circuit_size(composer') >= circuit_size(composer)
       /\ \A f \in VectorNames :
            /\ Len(composer'[f]) >= Len(composer[f])
            /\ SubSeq(composer'[f], 1, Len(composer[f])) = composer[f]
       /\ \A v \in DOMAIN composer.variables :
            /\ v \in DOMAIN composer'.variables
            /\ composer'.variables[v] = composer.variables[v]]_vars

\* A lookup row appended after an arithmetic row that an earlier call
\* appended behind the rows of construction.
LookupRowAfterUserRow ==
    /\ last.op = "plookup_gate"
    /\ circuit_size(composer) = 5
    /\ At(composer.q_arith, 3) = ScalarOne
    /\ At(composer.q_lookup, 4) = ScalarOne
    /\ Cardinality(DOMAIN composer.variables) > Cardinality(DOMAIN new.variables)

=============================================================================
